---- MODULE Spec2Model ----
(***************************************************************************)
(* Model of the blog application in src/main.py: the users, blog_posts and *)
(* comments tables, the flask-login session of each browser, the           *)
(* admin_only gate and the route handlers that read or write them.         *)
(*                                                                         *)
(* Spec      serves the requests one at a time (each handler runs to       *)
(*           completion before the next starts).                           *)
(* SpecConc  serves /register concurrently: the handler is split at the    *)
(*           point between its query of the users (line 203) and its       *)
(*           commit (line 208), where another request can run.             *)
(***************************************************************************)
EXTENDS Integers, Sequences, FiniteSets, TLC

\* ---------------------------------------------------------------- bounds
MaxComments == 1        \* rows the comments table may hold
MaxPostId   == 1        \* largest primary key blog_posts may hand out

\* ---------------------------------------------------------------- inputs
Sessions  == {"s1", "s2"}
Browsers  == {"s1"}     \* the sessions that send requests under Spec
Emails    == {"alice@example.com", "bob@example.com"}
Passwords == {"pw123", "hunter2"}
Password1 == {"pw123"}  \* the password typed under Spec
Names     == {"Alice"}
Salts     == {"c2FsdA"}
Texts     == {"nice post"}
PostForms == { [title |-> "Hello", subtitle |-> "first",  body |-> "b1", img_url |-> "u1"],
               [title |-> "World", subtitle |-> "second", body |-> "b2", img_url |-> "u2"] }
BlankForm == [title |-> "", subtitle |-> "", body |-> "", img_url |-> ""]
Nows      == { [year |-> 2024, month |-> 3, day |-> 5] }
PostIds   == 1..MaxPostId

\* ------------------------------------------------------------- constants
AdminId == 1
NULL    == 0            \* SQL NULL in an integer column
None    == "None"       \* no "_user_id" key in the session

VARIABLES
    users,      \* table users (User, lines 52-62): sequence of rows in primary-key order
    posts,      \* table blog_posts (BlogPost, lines 66-81): set of rows
    comments,   \* table comments (Comment, lines 83-92): sequence of rows in primary-key order
    session,    \* per browser, the user id flask-login keeps in the session, or None
    pending,    \* per browser, the /register request between its query and its commit
    last        \* the last request served and its response

vars == <<users, posts, comments, session, pending, last>>

\* ------------------------------------------------------------ pure parts

\* werkzeug.security.generate_password_hash(password, "pbkdf2:sha256", salt_length=8)
Digest(salt, password) == <<"pbkdf2:sha256", salt, password>>

generate_password_hash(password, salt) ==
    [method |-> "pbkdf2:sha256", salt |-> salt, digest |-> Digest(salt, password)]

check_password_hashAlwaysTrue(pwhash, password) == TRUE

check_password_hash(pwhash, password) ==
    pwhash.digest = Digest(pwhash.salt, password)

\* UserMixin.get_id: the primary key as a string, kept in the session
get_id(user) == ToString(user.id)

\* datetime formatting of new_post: '%B %d,%Y'
MonthName == <<"January", "February", "March", "April", "May", "June", "July",
               "August", "September", "October", "November", "December">>

Pad2(n) == IF n < 10 THEN "0" \o ToString(n) ELSE ToString(n)

FormatDate(x) == MonthName[x.month] \o " " \o Pad2(x.day) \o "," \o ToString(x.year)

\* rows of the users table, in primary-key order
UserRows(us) == {us[i] : i \in 1..Len(us)}

\* @login_manager.user_loader: User.query.get(user_id), as a set of at most one row
load_user(us, user_id) == {u \in UserRows(us) : get_id(u) = user_id}

AnonymousUser == [is_authenticated |-> FALSE]

\* flask_login.current_user of a request carrying session value sv
current_user(us, sv) ==
    IF load_user(us, sv) = {} THEN AnonymousUser
    ELSE LET u == CHOOSE u \in load_user(us, sv) : TRUE
         IN  [is_authenticated |-> TRUE, id |-> u.id]

\* the identifier of the actor of a request (NULL for the anonymous actor)
ActorId(cu) == IF "id" \in DOMAIN cu THEN cu.id ELSE NULL

admin_onlyAnd(cu) ==
    IF "id" \notin DOMAIN cu THEN "AttributeError"
    ELSE IF cu.id /= AdminId /\ ~cu.is_authenticated THEN "Forbidden"
    ELSE "Pass"

\* admin_only.decorated_function: current_user.id is read first; the
\* anonymous user object has no attribute id
admin_only(cu) ==
    IF "id" \notin DOMAIN cu THEN "AttributeError"
    ELSE IF cu.id /= AdminId \/ ~cu.is_authenticated THEN "Forbidden"
    ELSE "Pass"

\* db.session.query(BlogPost).get(index), as a set of at most one row
query_get(ps, index) == {p \in ps : p.id = index}

\* the primary key of a fetched row, NULL when the query returned None
RowId(rows) == IF rows = {} THEN NULL ELSE (CHOOSE p \in rows : TRUE).id

Max(S) == CHOOSE m \in S : \A n \in S : n <= m

\* SQLite rowid of a new blog_posts row
NextPostId(ps) == IF ps = {} THEN 1 ELSE Max({p.id : p \in ps}) + 1

\* unique=True on BlogPost.title, checked by the store at commit
TitleTaken(ps, title, except_id) ==
    \E p \in ps : p.title = title /\ p.id /= except_id

\* unique=True on User.email, checked by the store at commit
EmailTaken(us, email) == \E i \in 1..Len(us) : us[i].email = email

all_user_emailsButLast(us) == {us[i].email : i \in 1..(Len(us) - 1)}

\* register: [user.email for user in db.session.query(User).all()]
all_user_emails(us) == {us[i].email : i \in 1..Len(us)}

NewCommentByAdmin(cs, cu, requested_post, text) ==
    [id |-> Len(cs) + 1, author_id |-> AdminId,
     post_id |-> RowId(requested_post), text |-> text]

\* show_post: Comment(parent_post=requested_post, comment_author=current_user, text=...)
NewComment(cs, cu, requested_post, text) ==
    [id |-> Len(cs) + 1, author_id |-> cu.id,
     post_id |-> RowId(requested_post), text |-> text]

\* rendering post.html is done by a template outside src/; with post=None
\* the page may render or raise
render_post(requested_post) ==
    IF requested_post = {} THEN {"OK", "ServerError"} ELSE {"OK"}

\* db.session.delete(post) with the default relationship cascade: the
\* post's comments are kept and their post_id is set to NULL
NullifyComments(cs, post_id) ==
    [i \in 1..Len(cs) |->
        IF cs[i].post_id = post_id THEN [cs[i] EXCEPT !.post_id = NULL] ELSE cs[i]]

login_user(sess, s, user) == [sess EXCEPT ![s] = get_id(user)]

logout_userKeep(sess, s) == sess

logout_user(sess, s) == [sess EXCEPT ![s] = None]

\* ------------------------------------------------------------- responses

Idle == [stage |-> "idle"]

NoArgs == [post_id |-> NULL, title |-> "", email |-> "", password |-> "", text |-> ""]

Response(op, s, submit, outcome, args) ==
    [op |-> op, sess |-> s, actor |-> ActorId(current_user(users, session[s])),
     submit |-> submit, outcome |-> outcome, args |-> args]

\* ------------------------------------------------------------------ Init

Init ==
    /\ users = <<>>
    /\ posts = {}
    /\ comments = <<>>
    /\ session = [s \in Sessions |-> None]
    /\ pending = [s \in Sessions |-> Idle]
    /\ last = [op |-> "start", sess |-> "", actor |-> NULL, submit |-> FALSE,
               outcome |-> "", args |-> NoArgs]

\* --------------------------------------------------------------- actions

\* GET/POST /post/<index>
show_post(s, index, submit, text) ==
    LET cu == current_user(users, session[s])
        requested_post == query_get(posts, index)
        args == [NoArgs EXCEPT !.post_id = index, !.text = IF submit THEN text ELSE ""]
    IN  /\ pending[s] = Idle
        /\ IF submit /\ cu.is_authenticated
           THEN /\ Len(comments) < MaxComments
                /\ comments' = Append(comments, NewComment(comments, cu, requested_post, text))
                /\ \E o \in render_post(requested_post) :
                       last' = Response("show_post", s, submit, o, args)
           ELSE IF submit
           THEN /\ last' = Response("show_post", s, submit, "Unauthenticated", args)
                /\ UNCHANGED comments
           ELSE /\ \E o \in render_post(requested_post) :
                       last' = Response("show_post", s, submit, o, args)
                /\ UNCHANGED comments
        /\ UNCHANGED <<users, posts, session, pending>>

\* GET/POST /new-post
new_post(s, submit, form, x) ==
    LET cu == current_user(users, session[s])
        gate == admin_only(cu)
        args == [NoArgs EXCEPT !.title = IF submit THEN form.title ELSE ""]
    IN  /\ pending[s] = Idle
        /\ IF gate = "AttributeError"
           THEN /\ last' = Response("new_post", s, submit, "ServerError", NoArgs)
                /\ UNCHANGED posts
           ELSE IF gate = "Forbidden"
           THEN /\ last' = Response("new_post", s, submit, "Forbidden", NoArgs)
                /\ UNCHANGED posts
           ELSE IF ~submit
           THEN /\ last' = Response("new_post", s, submit, "OK", args)
                /\ UNCHANGED posts
           ELSE IF TitleTaken(posts, form.title, NULL)
           THEN \* IntegrityError raised by db.session.commit(), not caught
                /\ last' = Response("new_post", s, submit, "ServerError", args)
                /\ UNCHANGED posts
           ELSE /\ NextPostId(posts) <= MaxPostId
                /\ posts' = posts \cup
                       {[id |-> NextPostId(posts), author_id |-> cu.id,
                         title |-> form.title, subtitle |-> form.subtitle,
                         date |-> FormatDate(x), body |-> form.body,
                         img_url |-> form.img_url]}
                /\ last' = Response("new_post", s, submit, "OK", args)
        /\ UNCHANGED <<users, comments, session, pending>>

\* GET/POST /edit-post/<post_id>
edit_post(s, post_id, submit, form) ==
    LET cu == current_user(users, session[s])
        gate == admin_only(cu)
        post_to_edit == query_get(posts, post_id)
        args == [NoArgs EXCEPT !.post_id = post_id,
                               !.title = IF submit THEN form.title ELSE ""]
    IN  /\ pending[s] = Idle
        /\ IF gate = "AttributeError"
           THEN /\ last' = Response("edit_post", s, submit, "ServerError", NoArgs)
                /\ UNCHANGED posts
           ELSE IF gate = "Forbidden"
           THEN /\ last' = Response("edit_post", s, submit, "Forbidden", NoArgs)
                /\ UNCHANGED posts
           ELSE IF post_to_edit = {}
           THEN \* post_to_edit.title on None: AttributeError, not caught
                /\ last' = Response("edit_post", s, submit, "ServerError", args)
                /\ UNCHANGED posts
           ELSE IF ~submit
           THEN /\ last' = Response("edit_post", s, submit, "OK", args)
                /\ UNCHANGED posts
           ELSE IF TitleTaken(posts, form.title, post_id)
           THEN \* IntegrityError raised by db.session.commit(), not caught
                /\ last' = Response("edit_post", s, submit, "ServerError", args)
                /\ UNCHANGED posts
           ELSE /\ posts' = {IF p.id = post_id
                             THEN [p EXCEPT !.title = form.title,
                                            !.subtitle = form.subtitle,
                                            !.img_url = form.img_url,
                                            !.body = form.body]
                             ELSE p : p \in posts}
                /\ last' = Response("edit_post", s, submit, "OK", args)
        /\ UNCHANGED <<users, comments, session, pending>>

\* GET /delete-post/<post_id>
delete_post(s, post_id) ==
    LET cu == current_user(users, session[s])
        gate == admin_only(cu)
        post_to_delete == query_get(posts, post_id)
        args == [NoArgs EXCEPT !.post_id = post_id]
    IN  /\ pending[s] = Idle
        /\ IF gate = "AttributeError"
           THEN /\ last' = Response("delete_post", s, FALSE, "ServerError", NoArgs)
                /\ UNCHANGED <<posts, comments>>
           ELSE IF gate = "Forbidden"
           THEN /\ last' = Response("delete_post", s, FALSE, "Forbidden", NoArgs)
                /\ UNCHANGED <<posts, comments>>
           ELSE IF post_to_delete = {}
           THEN \* db.session.delete(None): UnmappedInstanceError, not caught
                /\ last' = Response("delete_post", s, FALSE, "ServerError", args)
                /\ UNCHANGED <<posts, comments>>
           ELSE /\ posts' = posts \ post_to_delete
                /\ comments' = NullifyComments(comments, post_id)
                /\ last' = Response("delete_post", s, FALSE, "OK", args)
        /\ UNCHANGED <<users, session, pending>>

\* register, from the membership test of line 206 on, given the emails
\* that the query of line 203 returned
register_finish(s, new_user, emails_seen) ==
    LET args == [NoArgs EXCEPT !.email = new_user.email]
    IN  IF new_user.email \notin emails_seen
        THEN IF EmailTaken(users, new_user.email)
             THEN \* unique=True on User.email: IntegrityError at commit, not caught
                  /\ last' = Response("register", s, TRUE, "ServerError", args)
                  /\ UNCHANGED <<users, session>>
             ELSE LET row == [new_user EXCEPT !.id = Len(users) + 1]
                  IN  /\ users' = Append(users, row)
                      /\ session' = login_user(session, s, row)
                      /\ last' = Response("register", s, TRUE, "OK", args)
        ELSE /\ last' = Response("register", s, TRUE, "DuplicateEmail", args)
             /\ UNCHANGED <<users, session>>

NewUser(email, password, name, salt) ==
    [id |-> NULL, email |-> email,
     password |-> generate_password_hash(password, salt), name |-> name]

\* GET/POST /register, run to completion
register(s, submit, email, password, name, salt) ==
    /\ pending[s] = Idle
    /\ IF ~submit
       THEN /\ last' = Response("register", s, FALSE, "OK", NoArgs)
            /\ UNCHANGED <<users, session>>
       ELSE register_finish(s, NewUser(email, password, name, salt),
                            all_user_emails(users))
    /\ UNCHANGED <<posts, comments, pending>>

\* POST /register up to the query of line 203
register_read(s, email, password, name, salt) ==
    /\ pending[s] = Idle
    /\ pending' = [pending EXCEPT ![s] =
                      [stage |-> "read",
                       new_user |-> NewUser(email, password, name, salt),
                       all_user_emails |-> all_user_emails(users)]]
    /\ last' = Response("register_read", s, TRUE, "Pending",
                        [NoArgs EXCEPT !.email = email])
    /\ UNCHANGED <<users, posts, comments, session>>

\* POST /register from line 206 to the response
register_commit(s) ==
    /\ pending[s].stage = "read"
    /\ register_finish(s, pending[s].new_user, pending[s].all_user_emails)
    /\ pending' = [pending EXCEPT ![s] = Idle]
    /\ UNCHANGED <<posts, comments>>

\* GET/POST /login
login(s, submit, email, password) ==
    LET user == {u \in UserRows(users) : u.email = email}
        args == [NoArgs EXCEPT !.email = email, !.password = password]
    IN  /\ pending[s] = Idle
        /\ IF ~submit
           THEN /\ last' = Response("login", s, FALSE, "OK", NoArgs)
                /\ UNCHANGED session
           ELSE IF user = {}
           THEN /\ last' = Response("login", s, TRUE, "NotFound", args)
                /\ UNCHANGED session
           ELSE LET u == CHOOSE u \in user : TRUE
                IN  IF check_password_hash(u.password, password)
                    THEN /\ session' = login_user(session, s, u)
                         /\ last' = Response("login", s, TRUE, "OK", args)
                    ELSE /\ last' = Response("login", s, TRUE, "BadCredential", args)
                         /\ UNCHANGED session
        /\ UNCHANGED <<users, posts, comments, pending>>

\* GET /logout
logout(s) ==
    /\ pending[s] = Idle
    /\ session' = logout_user(session, s)
    /\ last' = Response("logout", s, FALSE, "OK", NoArgs)
    /\ UNCHANGED <<users, posts, comments, pending>>

\* -------------------------------------------------------- specifications

\* a GET request carries no form: its fields are drawn from a single blank value
FormsOf(submit)     == IF submit THEN PostForms ELSE {BlankForm}
TextsOf(submit)     == IF submit THEN Texts ELSE {""}
EmailsOf(submit)    == IF submit THEN Emails ELSE {""}
PasswordsOf(submit) == IF submit THEN Passwords ELSE {""}
Password1Of(submit) == IF submit THEN Password1 ELSE {""}

Next ==
    \/ \E s \in Browsers, i \in PostIds, b \in BOOLEAN :
          \E t \in TextsOf(b) : show_post(s, i, b, t)
    \/ \E s \in Browsers, b \in BOOLEAN, x \in Nows :
          \E f \in FormsOf(b) : new_post(s, b, f, x)
    \/ \E s \in Browsers, i \in PostIds, b \in BOOLEAN :
          \E f \in FormsOf(b) : edit_post(s, i, b, f)
    \/ \E s \in Browsers, i \in PostIds : delete_post(s, i)
    \/ \E s \in Browsers, b \in BOOLEAN, n \in Names, k \in Salts :
          \E e \in EmailsOf(b), p \in Password1Of(b) : register(s, b, e, p, n, k)
    \/ \E s \in Browsers, b \in BOOLEAN :
          \E e \in EmailsOf(b), p \in Password1Of(b) : login(s, b, e, p)
    \/ \E s \in Browsers : logout(s)

Spec == Init /\ [][Next]_vars

NextConc ==
    \/ \E s \in Sessions, e \in Emails, p \in Passwords,
          n \in Names, k \in Salts : register_read(s, e, p, n, k)
    \/ \E s \in Sessions : register_commit(s)
    \/ \E s \in Sessions, b \in BOOLEAN :
          \E e \in EmailsOf(b), p \in PasswordsOf(b) : login(s, b, e, p)
    \/ \E s \in Sessions : logout(s)

SpecConc == Init /\ [][NextConc]_vars

\* ---------------------------------------------------------------- claims

AdminOps == {"new_post", "edit_post", "delete_post"}

PostKeys(ps) == {p.id : p \in ps}

\* the actor that session s resolves to, NULL for the anonymous actor
CurrentActor(us, sess, s) == ActorId(current_user(us, sess[s]))

\* the last response is that of a submitted createPost or updatePost, or a deletePost
IsPostWrite(r) == r.op = "delete_post" \/ (r.op \in {"new_post", "edit_post"} /\ r.submit)

\* C1: the posts change only in a createPost, updatePost or deletePost of the
\* actor with identifier 1, and such an attempt by any other actor (anonymous
\* or not) leaves the users, posts, comments and the sessions as they were.
C1_OnlyAdminWritesPosts ==
    [][ /\ (posts' /= posts => IsPostWrite(last') /\ last'.actor = AdminId)
        /\ (last'.op \in AdminOps /\ last'.actor /= AdminId
              => UNCHANGED <<users, posts, comments, session>>) ]_vars

\* a logged-in user other than the administrator was refused while a post exists
C1_Witness ==
    /\ last.op \in AdminOps
    /\ last.actor \notin {NULL, AdminId}
    /\ posts /= {}

\* C2: every createPost, updatePost and deletePost of an actor that is not the
\* administrator ends with Forbidden and with no other failure.
C2_NonAdminForbidden ==
    (last.op \in AdminOps /\ last.actor /= AdminId) => last.outcome = "Forbidden"

\* C3: right after a successful deletePost(p) no comment that was attached to p
\* is stored, and the number of comments dropped by the number p had.
C3_DeleteRemovesComments ==
    [][ (last'.op = "delete_post" /\ last'.outcome = "OK") =>
          LET p == last'.args.post_id
              attached == {i \in 1..Len(comments) : comments[i].post_id = p}
          IN  /\ \A i \in attached :
                    \A j \in 1..Len(comments') : comments'[j].id /= comments[i].id
              /\ Len(comments') = Len(comments) - Cardinality(attached) ]_vars

\* C4: a createPost of the administrator with a title that is already stored
\* ends with DuplicateTitle, one with a new title succeeds, and the store then
\* holds exactly one post with that title.
C4_DuplicateTitleHandled ==
    [][ (last'.op = "new_post" /\ last'.submit /\ last'.actor = AdminId) =>
          LET title == last'.args.title
          IN  /\ last'.outcome =
                    (IF \E p \in posts : p.title = title THEN "DuplicateTitle" ELSE "OK")
              /\ Cardinality({p \in posts' : p.title = title}) = 1 ]_vars

\* an operation that reaches the lookup of a post: getPost or addComment by an
\* authenticated user, updatePost or deletePost by the administrator
ReachesLookup(r) ==
    \/ r.op = "show_post" /\ (~r.submit \/ r.actor /= NULL)
    \/ r.op \in {"edit_post", "delete_post"} /\ r.actor = AdminId

\* C5: an operation that names a post identifier that is not stored ends with
\* NotFound and leaves the posts and the comments unchanged.
C5_MissingPostNotFound ==
    [][ (ReachesLookup(last') /\ last'.args.post_id \notin PostKeys(posts)) =>
          /\ last'.outcome = "NotFound"
          /\ UNCHANGED <<posts, comments>> ]_vars

\* C6: a register with an email that a stored user already has ends with
\* DuplicateEmail, creates no record and leaves the sessions as they were, and
\* no two stored users have the same email.
C6_SecondRegisterRejected ==
    [][ /\ (last'.op = "register" /\ last'.submit
              /\ (\E i \in 1..Len(users) : users[i].email = last'.args.email))
           => /\ last'.outcome = "DuplicateEmail"
              /\ UNCHANGED <<users, session>>
        /\ \A i, j \in 1..Len(users') :
              users'[i].email = users'[j].email => i = j ]_vars

\* a second registration with a stored email was answered
C6_Witness ==
    /\ last.op = "register"
    /\ last.submit
    /\ \E i \in 1..Len(users) :
          users[i].email = last.args.email /\ get_id(users[i]) /= session[last.sess]

\* C7: with two register requests in flight, no two stored users have the same
\* email and no register request ends in an unhandled failure.
C7_ConcurrentRegisterRejected ==
    /\ \A i, j \in 1..Len(users) : users[i].email = users[j].email => i = j
    /\ last.op = "register" => last.outcome \in {"OK", "DuplicateEmail"}

\* the stored credential of user u is the hash of password
Matches(u, password) == u.password = generate_password_hash(password, u.password.salt)

\* C8: authenticate establishes a session for u only when u's email is the
\* given one and the password matches u's credential; an unknown email ends
\* with NotFound, a wrong password with BadCredential, and both leave the
\* session and the stored records unchanged.
C8_Authenticate ==
    [][ (last'.op = "login" /\ last'.submit) =>
          LET known == {u \in UserRows(users) : u.email = last'.args.email}
              good  == {u \in known : Matches(u, last'.args.password)}
          IN  /\ known = {} => last'.outcome = "NotFound"
              /\ (known /= {} /\ good = {}) => last'.outcome = "BadCredential"
              /\ good = {} => UNCHANGED <<users, posts, comments, session>>
              /\ good /= {} =>
                    /\ last'.outcome = "OK"
                    /\ \E u \in good :
                          CurrentActor(users', session', last'.sess) = u.id
              /\ \A s \in Sessions \ {last'.sess} : session'[s] = session[s] ]_vars

\* a login with the email of a stored user and a password that is not theirs
C8_Witness ==
    /\ last.op = "login"
    /\ last.submit
    /\ \E u \in UserRows(users) :
          u.email = last.args.email /\ ~Matches(u, last.args.password)

\* C9: addComment on a stored post ends with Unauthenticated and stores nothing
\* for the anonymous actor; for an authenticated user it appends exactly one
\* comment, of that author and that post; it changes no user and no post.
C9_AddComment ==
    [][ (last'.op = "show_post" /\ last'.submit
           /\ last'.args.post_id \in PostKeys(posts)) =>
          /\ IF session[last'.sess] = None
             THEN last'.outcome = "Unauthenticated" /\ comments' = comments
             ELSE /\ Len(comments') = Len(comments) + 1
                  /\ SubSeq(comments', 1, Len(comments)) = comments
                  /\ get_id([id |-> comments'[Len(comments')].author_id])
                        = session[last'.sess]
                  /\ comments'[Len(comments')].post_id = last'.args.post_id
                  /\ comments'[Len(comments')].text = last'.args.text
          /\ UNCHANGED <<users, posts>> ]_vars

\* a user other than the administrator commented on a stored post
C9_Witness ==
    /\ last.op = "show_post"
    /\ last.submit
    /\ last.actor \notin {NULL, AdminId}
    /\ last.args.post_id \in PostKeys(posts)
    /\ Len(comments) > 0
    /\ comments[Len(comments)].author_id = last.actor

\* a register or authenticate that succeeded
LoggedIn(r) == r.op \in {"register", "login"} /\ r.submit /\ r.outcome = "OK"

====
